---------------------------- MODULE Spec2Model ----------------------------
(***************************************************************************)
(* Model of llm-context-gen (src/src/main.rs): one run of the tool, from   *)
(* parsed arguments to process exit.                                       *)
(*                                                                         *)
(* Text is modelled as a sequence of one-character strings, so that path   *)
(* splitting, prefix tests, extension extraction, case folding, length     *)
(* checks and file-name sanitising are computed the way the code computes  *)
(* them.  The two box-drawing literals of the tree document are written in *)
(* ASCII: Glyph stands for the indent unit (U+2502 and three spaces) and   *)
(* Branch for the entry marker (U+251C U+2500 U+2500 and a space).  Fixed  *)
(* pieces of a format string are single tokens of a line; names are spelt  *)
(* out character by character.                                             *)
(***************************************************************************)
EXTENDS Integers, Sequences, FiniteSets, TLC

\* ------------------------------------------------------------------------
\* Bounds of the model
\* ------------------------------------------------------------------------
MaxFaults == 1      \* I/O operations that fail during one run

\* ------------------------------------------------------------------------
\* Program constants
\* ------------------------------------------------------------------------
MaxIndent == 10             \* get_indent: max_indent
SniffLen == 8192            \* is_binary_file: buffer size
SizeThreshold == 1000000    \* is_too_large
MaxPathLen == 200           \* process_file: relative path length limit
MaxNameLen == 150           \* sanitize_filename: take(150)
MaxComponents == 20         \* main: component_count > 20

\* ------------------------------------------------------------------------
\* Text helpers (std::str / std::path)
\* ------------------------------------------------------------------------
Min(a, b) == IF a < b THEN a ELSE b

Last(s) == s[Len(s)]

IsPrefix(p, s) == Len(p) <= Len(s) /\ SubSeq(s, 1, Len(p)) = p

\* str::split(c): the segments of s between occurrences of c
RECURSIVE SplitAt(_, _, _)
SplitAt(s, start, seps) ==
    IF seps = {} THEN <<SubSeq(s, start, Len(s))>>
    ELSE LET i == CHOOSE k \in seps : \A j \in seps : k <= j
         IN  <<SubSeq(s, start, i - 1)>> \o SplitAt(s, i + 1, seps \ {i})

SplitOn(s, c) == SplitAt(s, 1, {i \in 1..Len(s) : s[i] = c})

\* str::trim(): leading and trailing white space removed
RECURSIVE TrimStart(_)
TrimStart(s) ==
    IF s # <<>> /\ s[1] = " " THEN TrimStart(Tail(s)) ELSE s

RECURSIVE TrimEnd(_)
TrimEnd(s) ==
    IF s # <<>> /\ Last(s) = " " THEN TrimEnd(SubSeq(s, 1, Len(s) - 1)) ELSE s

Trim(s) == TrimEnd(TrimStart(s))

\* str::to_lowercase() on the letters the model's names use
LowerOf(c) ==
    CASE c = "P" -> "p"
      [] c = "N" -> "n"
      [] c = "G" -> "g"
      [] c = "T" -> "t"
      [] c = "X" -> "x"
      [] OTHER -> c

ToLowercase(s) == [i \in 1..Len(s) |-> LowerOf(s[i])]

\* the text of a path given by its components
RECURSIVE JoinPath(_)
JoinPath(comps) ==
    IF comps = <<>> THEN <<>>
    ELSE IF Len(comps) = 1 THEN comps[1]
    ELSE comps[1] \o <<"/">> \o JoinPath(Tail(comps))

\* Path::components(): a leading "/" is the root component, a leading "."
\* is kept, every other "." and every empty segment is dropped
RootDir == <<"/">>
CurDir == <<".">>
ParentDir == <<".", ".">>

Components(p) ==
    LET segs == SplitOn(p, "/")
        head == IF p # <<>> /\ p[1] = "/" THEN <<RootDir>>
                ELSE IF segs[1] = CurDir THEN <<CurDir>>
                ELSE <<>>
        IsNormal(s) == s # <<>> /\ s # CurDir
    IN  head \o SelectSeq(segs, IsNormal)

\* Path::starts_with(base): whole components of base are a prefix
StartsWith(p, base) == IsPrefix(Components(base), Components(p))

\* Path::strip_prefix(base): the remaining components, or an error
StripPrefix(p, base) ==
    IF StartsWith(p, base)
    THEN [ok |-> TRUE,
          rel |-> SubSeq(Components(p), Len(Components(base)) + 1,
                         Len(Components(p)))]
    ELSE [ok |-> FALSE, rel |-> <<>>]

\* Path::file_name() of a component list: the last component when it is a
\* normal one
FileName(comps) ==
    IF comps = <<>> \/ Last(comps) \in {RootDir, CurDir, ParentDir}
    THEN [some |-> FALSE, name |-> <<>>]
    ELSE [some |-> TRUE, name |-> Last(comps)]

\* Path::extension(): the part of the file name after its last ".", none
\* when there is no "." or when the only "." starts the name
Extension(comps) ==
    LET f == FileName(comps).name
        dots == {i \in 1..Len(f) : f[i] = "."}
    IN  IF dots = {} THEN <<>>
        ELSE LET d == CHOOSE i \in dots : \A j \in dots : j <= i
             IN  IF d = 1 THEN <<>> ELSE SubSeq(f, d + 1, Len(f))

\* ------------------------------------------------------------------------
\* Names used by the configurations and the file systems of the model
\* ------------------------------------------------------------------------
N_llm_context == <<"l", "l", "m", "-", "c", "o", "n", "t", "e", "x", "t">>
N_file_tree == <<"f", "i", "l", "e", "-", "t", "r", "e", "e", ".", "t", "x", "t">>
N_node_modules == <<"n", "o", "d", "e", "_", "m", "o", "d", "u", "l", "e", "s">>
N_a_txt == <<"a", ".", "t", "x", "t">>
N_big_txt == <<"b", "i", "g", ".", "t", "x", "t">>
N_e_png == <<"e", ".", "p", "n", "g">>
N_n_dat == <<"n", ".", "d", "a", "t">>
N_b_js == <<"b", ".", "j", "s">>
N_photo_PNG == <<"p", "h", "o", "t", "o", ".", "P", "N", "G">>
N_s == <<"s">>
N_s_a_txt == <<"s", "_", "a", ".", "t", "x", "t">>
N_tmp == <<"t", "m", "p">>
N_c_txt == <<"c", ".", "t", "x", "t">>
N_z_txt == <<"z", ".", "t", "x", "t">>
N_dot_png == <<".", "p", "n", "g">>
N_long ==
    [i \in 1..(MaxPathLen - 3) |-> "x"] \o <<".", "p", "n", "g">>
N_file_tree_src == <<"f", "i", "l", "e", "-", "t", "r", "e", "e">>
N_w_q == <<"w", "\\", "q">>
N_m_txt == <<"m", ".", "t", "x", "t">>
N_trunc_1 == [i \in 1..MaxNameLen |-> "y"] \o <<"1">>
N_trunc_2 == [i \in 1..MaxNameLen |-> "y"] \o <<"2">>
N_d == <<"d">>

\* ------------------------------------------------------------------------
\* struct Opt: the run configurations of the model.  outUnder, outRel and
\* userNames are the ground truth of the scenario (where the output
\* directory really is relative to the root, and the names the user meant
\* by --ignore) and name labels the configuration; the program never reads
\* them.
\* ------------------------------------------------------------------------
DefaultMaxFiles == 2000
DefaultMaxSize == 500000
DefaultMaxDepth == 8
MaxBudget == 2      \* small values of --max-files the model also tries
DeepLevels == MaxComponents + 2     \* the deepest directory of the model
DeepMaxDepth == DeepLevels + 1      \* a --max-depth that reaches beneath it

OptDefault ==
    [name |-> "default", dir |-> <<".">>, output |-> N_llm_context, ignore |-> <<>>,
     max_files |-> DefaultMaxFiles,
     max_size |-> DefaultMaxSize, max_depth |-> DefaultMaxDepth,
     outUnder |-> TRUE, outRel |-> <<N_llm_context>>, userNames |-> {}]

OptOutside ==
    [name |-> "outside", dir |-> <<".">>, output |-> <<"/", "c", "t", "x">>,
     ignore |-> <<" ", "t", "m", "p", " ", ",", "x">>,
     max_files |-> DefaultMaxFiles,
     max_size |-> 2 * SizeThreshold, max_depth |-> 2,
     outUnder |-> FALSE, outRel |-> <<>>,
     userNames |-> {N_tmp, <<"x">>}]

OptNested ==
    [name |-> "nested", dir |-> <<"p">>,
     output |-> <<"p", "/">> \o N_llm_context, ignore |-> <<>>,
     max_files |-> DefaultMaxFiles,
     max_size |-> DefaultMaxSize, max_depth |-> DeepMaxDepth,
     outUnder |-> TRUE, outRel |-> <<N_llm_context>>, userNames |-> {}]

MaxFilesChoices == (0..MaxBudget) \cup {DefaultMaxFiles}

BaseOpts == {OptDefault, OptOutside, OptNested}

Opts == {[o EXCEPT !.max_files = n] : o \in BaseOpts, n \in MaxFilesChoices}

\* ------------------------------------------------------------------------
\* File systems: the entries beneath the root in the order the walk lists
\* them (depth-first pre-order).  len is the size in bytes, nul the offset
\* of the first zero byte (-1: none), content the text of the file.
\* ------------------------------------------------------------------------
Dir(rel) == [rel |-> rel, kind |-> "dir", len |-> 0, nul |-> -1, content |-> ""]

File(rel, len, nul, content) ==
    [rel |-> rel, kind |-> "file", len |-> len, nul |-> nul, content |-> content]

RootEntry == Dir(<<>>)

OutputDirEntries ==
    << Dir(<<N_llm_context>>),
       File(<<N_llm_context, N_file_tree>>, 2, -1, "tree") >>

FsScenario ==
    << File(<<N_a_txt>>, 5, -1, "hello"),
       Dir(<<N_node_modules>>),
       File(<<N_node_modules, N_b_js>>, 1, -1, "x") >>

FsZoo ==
    << File(<<N_dot_png>>, 4, -1, "dot"),
       File(<<N_big_txt>>, SizeThreshold + 1, -1, "big"),
       File(<<N_e_png>>, 0, -1, ""),
       File(<<N_n_dat>>, 5, 2, "nul"),
       File(<<N_photo_PNG>>, 4, -1, "text"),
       Dir(<<N_s>>),
       File(<<N_s, N_a_txt>>, 3, -1, "one"),
       Dir(<<N_s, N_tmp>>),
       File(<<N_s, N_tmp, N_c_txt>>, 1, -1, "c"),
       Dir(<<N_s, N_node_modules>>),
       File(<<N_s_a_txt>>, 3, -1, "two"),
       File(<<N_long>>, 1, 0, "long"),
       File(<<N_z_txt>>, SniffLen + 1, SniffLen, "late") >>

\* names: a file whose target name is the name of the tree document, a
\* name with a backslash, a file of exactly the threshold size and one just
\* above it, two names
\* that agree on their first 150 characters, a too-long path of a file
\* above the threshold size
FsNames ==
    << File(<<N_file_tree_src>>, 4, -1, "mine"),
       File(<<N_m_txt>>, SizeThreshold, -1, "edge"),
       File(<<N_big_txt>>, SizeThreshold + 1, -1, "big"),
       File(<<N_w_q>>, 2, -1, "wq"),
       File(<<N_long>>, SizeThreshold + 1, -1, "huge"),
       File(<<N_trunc_1>>, 3, -1, "y1"),
       File(<<N_trunc_2>>, 3, -1, "y2") >>

\* deep: a chain of directories d/d/.../d, DeepLevels of them, and a file
\* in the last one
Chain(n) == [i \in 1..n |-> N_d]

FsDeep ==
    [i \in 1..DeepLevels |-> Dir(Chain(i))]
        \o << File(Chain(DeepLevels) \o <<N_a_txt>>, 4, -1, "deep") >>

FileSystems == {"scenario", "zoo", "names", "deep"}

Listing(f) ==
    CASE f = "scenario" -> FsScenario
      [] f = "zoo" -> FsZoo
      [] f = "names" -> FsNames
      [] f = "deep" -> FsDeep

\* The walk (ignore::WalkBuilder as configured in main): the root entry
\* first, then every entry within max_depth, files above max_size left out.
\* The output directory and its tree document exist from startup on, so
\* they are part of the tree when the output directory lies under the root.
Yielded(o, e) ==
    /\ Len(e.rel) <= o.max_depth
    /\ e.kind = "file" => e.len <= o.max_size

WalkOf(o, listing) ==
    LET all == <<RootEntry>>
                 \o (IF o.outUnder THEN OutputDirEntries ELSE <<>>)
                 \o listing
        Keep(e) == Yielded(o, e)
    IN  SelectSeq(all, Keep)

\* entry.path(): the root as given, joined with the relative path
PathOf(o, e) ==
    IF e.rel = <<>> THEN o.dir ELSE o.dir \o <<"/">> \o JoinPath(e.rel)

\* ------------------------------------------------------------------------
\* Tree document lines
\* ------------------------------------------------------------------------
Glyph == "|   "
Branch == "|-- "

SatSub(a, b) == IF a > b THEN a - b ELSE 0

\* faulty variant: no cap
get_indent_uncapped(depth) == [i \in 1..depth |-> Glyph]

\* get_indent: the glyph once per level, at most max_indent times
get_indent(depth) == [i \in 1..Min(depth, MaxIndent) |-> Glyph]

IndentOf(rel) == get_indent(SatSub(Len(rel), 1))

RootLine == <<".">>

DirLine(rel) == IndentOf(rel) \o <<Branch>> \o FileName(rel).name \o <<"/">>

DeepLine == <<"[Deeply nested directory skipped]">>

TooLongLine(rel) == IndentOf(rel) \o <<Branch, "... (skipped - path too long)">>

BinaryLine(rel) ==
    IndentOf(rel) \o <<Branch>> \o FileName(rel).name
        \o <<" (skipped - binary or too large)">>

ReadErrorLine(rel) ==
    IndentOf(rel) \o <<Branch>> \o FileName(rel).name
        \o <<" (skipped - error reading)">>

FileLine(rel) == IndentOf(rel) \o <<Branch>> \o FileName(rel).name

NoticeLine(n) ==
    <<"[Maximum file limit reached (", n, "). Some files were skipped.]">>

\* writeln!(file_tree, "\n[Maximum ...]"): an empty line, then the notice
NoticeText(n) == << <<>>, NoticeLine(n) >>

\* ------------------------------------------------------------------------
\* Ignore set
\* ------------------------------------------------------------------------
BuiltinIgnores ==
    {<<"n", "o", "d", "e", "_", "m", "o", "d", "u", "l", "e", "s">>,
     <<"t", "a", "r", "g", "e", "t">>,
     <<"d", "i", "s", "t">>,
     <<"b", "u", "i", "l", "d">>,
     <<".", "g", "i", "t">>,
     <<".", "i", "d", "e", "a">>,
     <<".", "v", "s", "c", "o", "d", "e">>,
     <<"_", "_", "p", "y", "c", "a", "c", "h", "e", "_", "_">>,
     <<".", "n", "e", "x", "t">>,
     <<"o", "u", "t">>,
     <<"c", "o", "v", "e", "r", "a", "g", "e">>,
     <<".", "v", "e", "r", "c", "e", "l">>,
     <<".", "t", "u", "r", "b", "o">>}

\* default_ignores after the user-specified names were added
default_ignores(o) ==
    BuiltinIgnores \cup
        (IF o.ignore = <<>> THEN {}
         ELSE LET parts == SplitOn(o.ignore, ",")
              IN  {Trim(parts[i]) : i \in 1..Len(parts)})

\* path.starts_with(output_dir)
InOutputDir(o, path) == StartsWith(path, o.output)

\* faulty variant: only the last component is tested
IsIgnoredByFileName(o, path) ==
    FileName(Components(path)).name \in default_ignores(o)

\* path.components().any(|comp| default_ignores.contains(name))
IsIgnored(o, path) ==
    LET comps == Components(path)
        ignores == default_ignores(o)
    IN  \E i \in 1..Len(comps) : comps[i] \in ignores

\* relative_path: strip_prefix(&opt.dir), else the file name, else none
RelativePath(o, path) ==
    IF StripPrefix(path, o.dir).ok
    THEN [some |-> TRUE, rel |-> StripPrefix(path, o.dir).rel]
    ELSE IF FileName(Components(path)).some
    THEN [some |-> TRUE, rel |-> <<FileName(Components(path)).name>>]
    ELSE [some |-> FALSE, rel |-> <<>>]

\* ------------------------------------------------------------------------
\* Classifier
\* ------------------------------------------------------------------------
binary_extensions ==
    {<<"p", "n", "g">>, <<"j", "p", "g">>, <<"j", "p", "e", "g">>,
     <<"g", "i", "f">>, <<"b", "m", "p">>, <<"t", "i", "f", "f">>,
     <<"p", "d", "f">>, <<"d", "o", "c">>, <<"d", "o", "c", "x">>,
     <<"x", "l", "s">>, <<"x", "l", "s", "x">>, <<"p", "p", "t">>,
     <<"p", "p", "t", "x">>, <<"z", "i", "p">>, <<"t", "a", "r">>,
     <<"g", "z">>, <<"r", "a", "r">>, <<"7", "z">>, <<"e", "x", "e">>,
     <<"d", "l", "l">>, <<"s", "o">>, <<"d", "y", "l", "i", "b">>,
     <<"b", "i", "n">>, <<"m", "p", "3">>, <<"m", "p", "4">>,
     <<"w", "a", "v">>, <<"a", "v", "i">>, <<"m", "o", "v">>}

\* The operations whose failure the model considers, one name each
Faults ==
    {"create_dir", "open_tree", "walk", "sniff_open", "sniff_read",
     "metadata", "open", "read", "create", "header", "blank", "content",
     "tree"}

\* faulty variant: the extension is compared without to_lowercase()
is_binary_file_case_sensitive(path, e, F) ==
    IF "sniff_open" \in F THEN TRUE
    ELSE IF "sniff_read" \in F THEN TRUE
    ELSE LET bytes_read == Min(e.len, SniffLen)
         IN  IF bytes_read = 0 THEN FALSE
             ELSE IF e.nul >= 0 /\ e.nul < bytes_read THEN TRUE
             ELSE Extension(Components(path)) \in binary_extensions

\* faulty variant: a file that cannot be opened is taken for text
is_binary_file_open_failure_text(path, e, F) ==
    IF "sniff_open" \in F THEN FALSE
    ELSE IF "sniff_read" \in F THEN TRUE
    ELSE LET bytes_read == Min(e.len, SniffLen)
         IN  IF bytes_read = 0 THEN FALSE
             ELSE IF e.nul >= 0 /\ e.nul < bytes_read THEN TRUE
             ELSE ToLowercase(Extension(Components(path))) \in binary_extensions

\* is_binary_file: F is the set of operations that fail during this call
is_binary_file(path, e, F) ==
    IF "sniff_open" \in F THEN TRUE
    ELSE IF "sniff_read" \in F THEN TRUE
    ELSE LET bytes_read == Min(e.len, SniffLen)
         IN  IF bytes_read = 0 THEN FALSE
             ELSE IF e.nul >= 0 /\ e.nul < bytes_read THEN TRUE
             ELSE ToLowercase(Extension(Components(path))) \in binary_extensions

\* faulty variant: >= instead of >
is_too_large_inclusive(e, F) ==
    IF "metadata" \in F THEN FALSE ELSE e.len >= SizeThreshold

\* is_too_large
is_too_large(e, F) ==
    IF "metadata" \in F THEN FALSE ELSE e.len > SizeThreshold

\* ------------------------------------------------------------------------
\* Snapshot writer
\* ------------------------------------------------------------------------
ReplaceSeparators(s) ==
    [i \in 1..Len(s) |-> IF s[i] \in {"/", "\\"} THEN "_" ELSE s[i]]

\* faulty variant: backslashes are kept
sanitize_filename_slash_only(s) ==
    SubSeq([i \in 1..Len(s) |-> IF s[i] = "/" THEN "_" ELSE s[i]],
           1, Min(Len(s), MaxNameLen))

\* sanitize_filename
sanitize_filename(s) ==
    SubSeq(ReplaceSeparators(s), 1, Min(Len(s), MaxNameLen))

\* output_dir.join(format!("{}.txt", safe_filename)), as a name inside the
\* output directory
TargetName(rel) == sanitize_filename(JoinPath(rel)) \o <<".", "t", "x", "t">>

\* the target file after each step of the artifact write
Put(files, name, body) ==
    [x \in DOMAIN files \cup {name} |-> IF x = name THEN body ELSE files[x]]

\* writeln!(file_tree, ...)?: the line is appended, or the error is returned
TreeWrite(line, files, outcome, ops, F) ==
    [lines |-> IF "tree" \in F THEN <<>> ELSE <<line>>,
     files |-> files,
     ret |-> IF "tree" \in F THEN "err" ELSE "ok",
     outcome |-> outcome,
     ops |-> ops \cup {"tree"}]

\* return Ok(()) with no line written to the tree document
ReturnOk(files, outcome, ops) ==
    [lines |-> <<>>, files |-> files, ret |-> "ok", outcome |-> outcome,
     ops |-> ops]

\* faulty variant: the open error is returned to main
OnOpenErrorPropagated(rel, files, ops, F) ==
    [lines |-> <<>>, files |-> files, ret |-> "err",
     outcome |-> "open_error", ops |-> ops]

\* File::open(path) failed: logged, return Ok(()) with no tree line
OnOpenError(rel, files, ops, F) == ReturnOk(files, "open_error", ops)

\* faulty variant: the tree line is written although no target exists
OnCreateErrorWithLine(rel, files, ops, F) ==
    TreeWrite(FileLine(rel), files, "create_error", ops, F)

\* File::create(&output_file_path) failed: logged, return Ok(())
OnCreateError(rel, files, ops, F) == ReturnOk(files, "create_error", ops)

\* writeln!(output_file, "{}", file_name) failed: logged, return Ok(())
OnHeaderError(rel, files, ops, F) == ReturnOk(files, "header_error", ops)

\* faulty variant: the unfinished target is removed again
OnBlankErrorRemoves(rel, files, ops, F) ==
    ReturnOk([x \in DOMAIN files \ {TargetName(rel)} |-> files[x]],
             "blank_error", ops)

\* writeln!(output_file) failed: logged, return Ok(())
OnBlankError(rel, files, ops, F) == ReturnOk(files, "blank_error", ops)

\* faulty variant: return Ok(()) like the header and blank-line failures
OnContentErrorReturns(rel, files, ops, F) ==
    ReturnOk(files, "content_error", ops)

\* write!(output_file, "{}", content) failed: logged, falls through to the
\* tree line
OnContentError(rel, files, ops, F) ==
    TreeWrite(FileLine(rel), files, "content_error", ops, F)

\* process_file, after the read of the source succeeded: create the target
\* (truncating it), write the header line, the blank line and the content,
\* then the tree line
write_artifact(path, rel, e, files, ops, F) ==
    LET target == TargetName(rel)
        file_name == FileName(Components(path)).name
        created == Put(files, target, <<>>)
        headed == Put(files, target, <<file_name>>)
        blanked == Put(files, target, <<file_name, <<>>>>)
        full == Put(files, target, <<file_name, <<>>, e.content>>)
    IN  IF "create" \in F
        THEN OnCreateError(rel, files, ops \cup {"create"}, F)
        ELSE IF "header" \in F
        THEN OnHeaderError(rel, created, ops \cup {"create", "header"}, F)
        ELSE IF "blank" \in F
        THEN OnBlankError(rel, headed,
                          ops \cup {"create", "header", "blank"}, F)
        ELSE IF "content" \in F
        THEN OnContentError(rel, blanked,
                 ops \cup {"create", "header", "blank", "content"}, F)
        ELSE TreeWrite(FileLine(rel), full, "written",
                 ops \cup {"create", "header", "blank", "content"}, F)

\* faulty variant: the file is sniffed before its path length is looked at
process_file_sniff_first(path, rel, e, files, F) ==
    LET bin == is_binary_file(path, e, F)
        classOps == (IF "sniff_open" \in F THEN {"sniff_open"}
                     ELSE {"sniff_open", "sniff_read"})
                    \cup (IF bin THEN {} ELSE {"metadata"})
    IN  IF bin \/ is_too_large(e, F)
        THEN TreeWrite(BinaryLine(rel), files, "binary_or_large", classOps, F)
        ELSE IF Len(JoinPath(rel)) > MaxPathLen
        THEN TreeWrite(TooLongLine(rel), files, "too_long", classOps, F)
        ELSE IF "open" \in F
        THEN OnOpenError(rel, files, classOps \cup {"open"}, F)
        ELSE IF "read" \in F
        THEN TreeWrite(ReadErrorLine(rel), files, "read_error",
                       classOps \cup {"open", "read"}, F)
        ELSE write_artifact(path, rel, e, files,
                            classOps \cup {"open", "read"}, F)

\* process_file: what it appends to the tree document, the artifact files
\* afterwards, its return value, and the operations it attempted
process_file(path, rel, e, files, F) ==
    LET bin == is_binary_file(path, e, F)
        classOps == (IF "sniff_open" \in F THEN {"sniff_open"}
                     ELSE {"sniff_open", "sniff_read"})
                    \cup (IF bin THEN {} ELSE {"metadata"})
    IN  IF Len(JoinPath(rel)) > MaxPathLen
        THEN TreeWrite(TooLongLine(rel), files, "too_long", {}, F)
        ELSE IF bin \/ is_too_large(e, F)
        THEN TreeWrite(BinaryLine(rel), files, "binary_or_large", classOps, F)
        ELSE IF "open" \in F
        THEN OnOpenError(rel, files, classOps \cup {"open"}, F)
        ELSE IF "read" \in F
        THEN TreeWrite(ReadErrorLine(rel), files, "read_error",
                       classOps \cup {"open", "read"}, F)
        ELSE write_artifact(path, rel, e, files,
                            classOps \cup {"open", "read"}, F)

\* faulty variant: >= instead of >
visit_dir_inclusive(rel, files, F) ==
    IF Len(rel) >= MaxComponents
    THEN TreeWrite(DeepLine, files, "deep", {}, F)
    ELSE TreeWrite(DirLine(rel), files, "dir", {}, F)

\* main, Ok(entry) arm for a directory
visit_dir(rel, files, F) ==
    IF Len(rel) > MaxComponents
    THEN TreeWrite(DeepLine, files, "deep", {}, F)
    ELSE TreeWrite(DirLine(rel), files, "dir", {}, F)

\* main, Ok(entry) arm up to the relative path: which of the three
\* `continue`s the entry takes, if any, and its relative path
route_entry(o, e) ==
    LET path == PathOf(o, e)
        relative == RelativePath(o, path)
    IN  IF InOutputDir(o, path)
        THEN [skip |-> "output_dir", path |-> path, rel |-> <<>>]
        ELSE IF IsIgnored(o, path)
        THEN [skip |-> "ignored", path |-> path, rel |-> <<>>]
        ELSE IF ~relative.some
        THEN [skip |-> "no_relative_path", path |-> path, rel |-> <<>>]
        ELSE [skip |-> "", path |-> path, rel |-> relative.rel]

\* main, Ok(entry) arm: one iteration of the loop for a yielded entry
visit_entry(route, e, files, F) ==
    IF route.skip # "" THEN ReturnOk(files, route.skip, {})
    ELSE IF e.kind = "dir" THEN visit_dir(route.rel, files, F)
    ELSE IF e.kind = "file"
    THEN process_file(route.path, route.rel, e, files, F)
    ELSE ReturnOk(files, "other", {})

\* the tree document after one iteration.  output_dir.join("file-tree.txt")
\* and output_dir.join(format!("{}.txt", safe_filename)) are the same path
\* when the sanitized name is "file-tree": File::create then truncates the
\* tree document and process_file writes the Artifact text into it.  The
\* document is kept line by line; the bytes between the end of that text
\* and the offset of main's handle are not represented.
AsLines(body) == [i \in 1..Len(body) |-> IF i = 3 THEN <<body[i]>> ELSE body[i]]

TreeDocumentAfter(doc, route, r, F) ==
    IF /\ "create" \in r.ops \ F
       /\ TargetName(route.rel) = N_file_tree
    THEN AsLines(r.files[N_file_tree]) \o r.lines
    ELSE doc \o r.lines

\* faulty variant: only files whose Artifact was written are counted
CountedOnSuccessOnly(e, r) ==
    e.kind = "file" /\ r.ret = "ok" /\ r.outcome = "written"

\* file_count += 1 after process_file returned Ok
Counted(e, r) == e.kind = "file" /\ r.ret = "ok"
                   /\ r.outcome \notin {"output_dir", "ignored",
                                        "no_relative_path", "other"}

\* faulty variant: continue instead of break
AfterNoticeContinue == "visiting"

\* break: the loop is left and main runs to its end
AfterNotice == "exit_ok"

\* faulty variant: > instead of >=
BudgetExhaustedOffByOne(count, o) == count > o.max_files

\* faulty variant: a budget of 0 is taken for "no limit"
BudgetExhaustedNonZero(count, o) == o.max_files > 0 /\ count >= o.max_files

\* faulty variant: no budget check at all
BudgetCheckDisabled(count, o) == FALSE

\* if file_count >= max_files
BudgetExhausted(count, o) == count >= o.max_files

\* ------------------------------------------------------------------------
\* State
\* ------------------------------------------------------------------------
VARIABLES
    opt,            \* the parsed arguments
    fs,             \* which file system the root holds (see Listing)
    pc,             \* "init", "visiting", "exit_ok", "exit_err"
    idx,            \* the next item of the walk
    file_tree,      \* the lines of file-tree.txt
    output_files,   \* what process_file wrote to each target: name -> body
    file_count,     \* main's file_count
    total,          \* the "Total files processed" report: <<>> or <<n>>
    nfaults,        \* failed operations so far
    trace           \* history: one record per item the loop body handled
                    \* (i is the item's position in the walk, lines what
                    \* it appended to the tree document, created whether
                    \* File::create made or truncated the target file, ops
                    \* the operations it attempted)

vars == <<opt, fs, pc, idx, file_tree, output_files, file_count, total,
          nfaults, trace>>

\* the walk of each configuration over each file system (--max-files has
\* no part in it)
OptNames == {o.name : o \in BaseOpts}

OptNamed(n) == CHOOSE o \in BaseOpts : o.name = n

Walks ==
    [n \in OptNames |->
        [f \in FileSystems |-> WalkOf(OptNamed(n), Listing(f))]]

MinWalks == [n \in OptNames |-> WalkOf(OptNamed(n), <<>>)]

Walk == Walks[opt.name][fs]

\* the entries every tree of the configuration holds: the root and, when it
\* lies under the root, the output directory
MinWalk == MinWalks[opt.name]

\* the runs of the model: which trees each configuration is run on, and the
\* values of --max-files tried on each tree (the deep tree holds one file,
\* so only the default budget is tried on it)
RunsOf(name) ==
    CASE name = "default" -> {"scenario", "zoo", "names"}
      [] name = "outside" -> {"scenario", "zoo", "names"}
      [] name = "nested" -> {"scenario", "zoo", "deep"}

BudgetsOf(f) == IF f = "deep" THEN {DefaultMaxFiles} ELSE MaxFilesChoices

FaultChoices(allowed) ==
    {F \in SUBSET allowed : Cardinality(F) + nfaults <= MaxFaults}

Init ==
    /\ opt \in Opts
    /\ fs \in RunsOf(opt.name)
    /\ opt.max_files \in BudgetsOf(fs)
    /\ pc = "init"
    /\ idx = 1
    /\ file_tree = <<>>
    /\ output_files = <<>>
    /\ file_count = 0
    /\ total = <<>>
    /\ nfaults = 0
    /\ trace = <<>>

\* main up to the loop: create_dir_all, open file-tree.txt truncated, write
\* the root line; each of them ends the run with an error when it fails
Startup ==
    /\ pc = "init"
    /\ \E F \in FaultChoices({"create_dir", "open_tree", "tree"}) :
          /\ Cardinality(F) <= 1
          /\ nfaults' = nfaults + Cardinality(F)
          /\ IF F = {}
             THEN /\ file_tree' = <<RootLine>>
                  /\ pc' = "visiting"
             ELSE /\ file_tree' = <<>>
                  /\ pc' = "exit_err"
    /\ UNCHANGED <<opt, fs, idx, output_files, file_count, total, trace>>

\* the loop body when the budget check fires.  The check comes before the
\* match on the item, so the item is the next entry or an error of the
\* walk alike: notice, break, summary
LimitReached ==
    /\ pc = "visiting"
    /\ BudgetExhausted(file_count, opt)
    /\ \E item \in {"entry", "error"} :
       \E F \in FaultChoices({"tree", "walk"}) :
          /\ item = "entry" => (idx <= Len(Walk) /\ "walk" \notin F)
          /\ item = "error" => (idx > 1 /\ "walk" \in F)
          /\ nfaults' = nfaults + Cardinality(F)
          /\ idx' = IF item = "entry" THEN idx + 1 ELSE idx
          /\ trace' = Append(trace,
                 [i |-> IF item = "entry" THEN idx ELSE 0,
                  outcome |-> "notice", faults |-> F,
                  ret |-> IF "tree" \in F THEN "err" ELSE "ok",
                  counted |-> FALSE,
                  lines |-> IF "tree" \in F THEN <<>>
                            ELSE NoticeText(opt.max_files),
                  created |-> FALSE, ops |-> {"tree"}])
          /\ IF "tree" \notin F
             THEN /\ file_tree' = file_tree \o NoticeText(opt.max_files)
                  /\ pc' = AfterNotice
                  /\ total' = <<file_count>>
             ELSE /\ file_tree' = file_tree
                  /\ pc' = "exit_err"
                  /\ total' = total
    /\ UNCHANGED <<opt, fs, output_files, file_count>>

\* the loop body for Err(err): the error is printed, the loop goes on.  The
\* walk reports an error as an item of its own (a directory it yielded and
\* then could not read), so no entry is consumed; i = 0 in the history.
WalkError ==
    /\ pc = "visiting"
    /\ idx > 1
    /\ ~BudgetExhausted(file_count, opt)
    /\ {"walk"} \in FaultChoices({"walk"})
    /\ nfaults' = nfaults + 1
    /\ trace' = Append(trace,
           [i |-> 0, outcome |-> "walk_error", faults |-> {"walk"},
            ret |-> "ok", counted |-> FALSE, lines |-> <<>>,
            created |-> FALSE, ops |-> {}])
    /\ UNCHANGED <<opt, fs, pc, idx, file_tree, output_files, file_count,
                   total>>

\* the loop body for Ok(entry)
VisitEntry ==
    /\ pc = "visiting"
    /\ idx <= Len(Walk)
    /\ ~BudgetExhausted(file_count, opt)
    /\ \E e \in {Walk[idx]} :
       \E route \in {route_entry(opt, e)} :
       \E F \in FaultChoices(Faults \ {"walk", "create_dir", "open_tree"}) :
       \E r \in {visit_entry(route, e, output_files, F)} :
       \E counted \in {Counted(e, r)} :
          /\ F \subseteq r.ops
          /\ nfaults' = nfaults + Cardinality(F)
          /\ file_tree' = TreeDocumentAfter(file_tree, route, r, F)
          /\ output_files' = r.files
          /\ file_count' = IF counted THEN file_count + 1 ELSE file_count
          /\ pc' = IF r.ret = "ok" THEN "visiting" ELSE "exit_err"
          /\ trace' = Append(trace,
                 [i |-> idx, outcome |-> r.outcome, faults |-> F,
                  ret |-> r.ret, counted |-> counted, lines |-> r.lines,
                  created |-> "create" \in r.ops \ F, ops |-> r.ops])
    /\ idx' = idx + 1
    /\ UNCHANGED <<opt, fs, total>>

\* the walk has no more items (the tree holds the entries listed so far and
\* nothing else): the loop ends and the summary is printed
WalkEnd ==
    /\ pc = "visiting"
    /\ idx > Len(MinWalk)
    /\ pc' = "exit_ok"
    /\ total' = <<file_count>>
    /\ UNCHANGED <<opt, fs, idx, file_tree, output_files, file_count,
                   nfaults, trace>>

Next == Startup \/ LimitReached \/ WalkError \/ VisitEntry \/ WalkEnd

Spec == Init /\ [][Next]_vars

\* ------------------------------------------------------------------------
\* Vocabulary of the properties
\* ------------------------------------------------------------------------
TraceIdx == 1..Len(trace)

\* the walk item a history record is about
EntryOf(t) == Walk[t.i]

\* the history records of yielded entries the loop body looked at (not the
\* budget notice, not a walk error)
Visited(t) == t.outcome \notin {"notice", "walk_error"}

NoticeCount ==
    Cardinality({k \in 1..Len(file_tree) :
                    file_tree[k] = NoticeLine(opt.max_files)})

ArtifactNames == DOMAIN output_files

\* the outcomes of process_file
FileOutcomes ==
    {"too_long", "binary_or_large", "open_error", "read_error",
     "create_error", "header_error", "blank_error", "content_error",
     "written"}

\* outcomes that are a skipped line or an open/create failure
SkippedOutcomes ==
    {"too_long", "binary_or_large", "open_error", "read_error",
     "create_error"}

NumCounted == Cardinality({k \in TraceIdx : trace[k].counted})

\* ------------------------------------------------------------------------
\* C1 (as stated): whenever the counter has reached max-files = N, at most
\* N Artifacts exist and the finished run's tree document holds the
\* terminal notice exactly once, also when the walk had nothing left.
\* ------------------------------------------------------------------------
C1_NoticeExactlyOnce ==
    (pc = "exit_ok" /\ file_count >= opt.max_files)
        => /\ Cardinality(ArtifactNames) <= opt.max_files
           /\ NoticeCount = 1

\* C1 (amended): at most N Artifacts are produced and the terminal notice
\* appears at most once; it is in the tree document exactly when the walk
\* yielded one more item after the counter had reached N and the notice was
\* written, and it is absent while no further item has been yielded.
C1_BudgetEnforced ==
    /\ Cardinality(ArtifactNames) <= opt.max_files
    /\ file_count <= opt.max_files
    /\ NoticeCount <= 1
    /\ NoticeCount = 1 =>
          /\ file_count = opt.max_files
          /\ pc = "exit_ok"
          /\ Last(trace).outcome = "notice"
    /\ (pc = "exit_ok" /\ NoticeCount = 0) =>
          \A k \in TraceIdx : trace[k].outcome # "notice"
    /\ \A k \in TraceIdx :
          (trace[k].outcome = "notice" /\ trace[k].ret = "ok")
              => NoticeCount = 1

C1_Witness ==
    /\ opt.max_files > 0
    /\ Cardinality(ArtifactNames) = opt.max_files
    /\ NoticeCount = 1
    /\ idx <= Len(Walk)

\* ------------------------------------------------------------------------
\* C2 (as stated): the counter increments only for files that reach the
\* success path; a file ending in a skipped line or in an open/create
\* failure leaves it unchanged.
\* ------------------------------------------------------------------------
C2_CountsOnlySuccess ==
    \A k \in TraceIdx :
        trace[k].outcome \in SkippedOutcomes => ~trace[k].counted

\* C2 (amended): the counter increments for every regular file handed to
\* file handling that returns without error, whatever the outcome (Artifact
\* written, skipped line, open or create failure); it stays unchanged for
\* directories, ignored and output-directory entries, walk errors, and a
\* file whose tree-document write failed.
C2_CountsEveryHandledFile ==
    /\ \A k \in TraceIdx :
          trace[k].counted <=>
              /\ trace[k].outcome \in FileOutcomes
              /\ EntryOf(trace[k]).kind = "file"
              /\ trace[k].ret = "ok"
    /\ file_count = NumCounted

C2_Witness ==
    /\ file_count = 2
    /\ \E k \in TraceIdx :
          trace[k].outcome = "binary_or_large" /\ trace[k].counted
    /\ \E k \in TraceIdx :
          trace[k].outcome = "open_error" /\ trace[k].counted

\* ------------------------------------------------------------------------
\* Ground truth about an entry, from the scenario and not from the code
\* ------------------------------------------------------------------------
\* the entry is the output directory or lies beneath it
UnderOutput(o, e) == o.outUnder /\ IsPrefix(o.outRel, e.rel)

\* the names that make up the entry's path as the walk yields it
PathNames(o, e) ==
    {SplitOn(o.dir, "/")[k] : k \in 1..Len(SplitOn(o.dir, "/"))}
        \cup {e.rel[k] : k \in 1..Len(e.rel)}

\* some component name of the path is a built-in or user-supplied name
HasIgnoredName(o, e) ==
    PathNames(o, e) \cap (BuiltinIgnores \cup o.userNames) # {}

\* the history record left no trace in the outputs
Silent(t) == t.lines = <<>> /\ ~t.created /\ ~t.counted

\* ------------------------------------------------------------------------
\* C3: no entry equal to or nested under the output directory produces a
\* tree line, an Artifact or a counter increment, for every root and
\* output-directory configuration.
\* ------------------------------------------------------------------------
C3_OutputDirExcluded ==
    \A k \in TraceIdx :
        (Visited(trace[k]) /\ UnderOutput(opt, EntryOf(trace[k])))
            => Silent(trace[k])

\* ------------------------------------------------------------------------
\* C4: an entry with a component name in the effective IgnoreSet produces
\* no tree line, no Artifact (and no counter increment), at any depth.
\* ------------------------------------------------------------------------
C4_IgnoredIsSilent ==
    \A k \in TraceIdx :
        (Visited(trace[k]) /\ HasIgnoredName(opt, EntryOf(trace[k])))
            => Silent(trace[k])

C4_Witness ==
    /\ \E k \in TraceIdx :
          /\ Visited(trace[k])
          /\ EntryOf(trace[k]).rel = <<N_s, N_tmp>>
          /\ trace[k].outcome = "ignored"
    /\ \E k \in TraceIdx :
          /\ Visited(trace[k])
          /\ EntryOf(trace[k]).rel = <<N_s, N_node_modules>>
          /\ trace[k].outcome = "ignored"

\* ------------------------------------------------------------------------
\* More vocabulary
\* ------------------------------------------------------------------------
\* the closing tokens of the lines that are not a plain regular-file line
MarkTokens ==
    {"/", "... (skipped - path too long)", " (skipped - binary or too large)",
     " (skipped - error reading)"}

\* history records of regular files that got a plain line (indent, branch
\* and name, nothing after the name)
AcceptedFiles ==
    {k \in TraceIdx :
        /\ trace[k].outcome \in FileOutcomes
        /\ trace[k].lines # <<>>
        /\ Last(trace[k].lines[1]) \notin MarkTokens}

\* history records that created (or truncated) their target file
Created ==
    {k \in TraceIdx : trace[k].outcome \in FileOutcomes /\ trace[k].created}

\* the target name of every entry of every walk
Targets ==
    [n \in OptNames |->
        [f \in FileSystems |->
            [i \in 1..Len(Walks[n][f]) |-> TargetName(Walks[n][f][i].rel)]]]

TargetOf(k) == Targets[opt.name][fs][trace[k].i]

\* ------------------------------------------------------------------------
\* C5 (as stated): at the end of every run the number of Artifact files
\* equals the number of accepted regular-file lines of the tree document,
\* also under name collisions and failed create or write steps.  Stated
\* here for the runs in which no operation failed at all.
\* ------------------------------------------------------------------------
C5_ArtifactsEqualLines ==
    (pc = "exit_ok" /\ nfaults = 0)
        => Cardinality(ArtifactNames) = Cardinality(AcceptedFiles)

\* C5 (amended): every accepted regular-file line has an Artifact file
\* under the sanitized name of its path, every Artifact file was created for
\* a file handed to file handling, and every accepted directory yields
\* exactly one tree line and no Artifact.  The two counts are equal when no
\* two accepted paths share a target name and no header, blank-line or
\* tree-line write failed after a target was created.
C5_LinesHaveArtifacts ==
    \E accepted \in {AcceptedFiles} :
    /\ \A k \in accepted : TargetOf(k) \in ArtifactNames
    /\ ArtifactNames = {TargetOf(k) : k \in Created}
    /\ \A k \in TraceIdx :
          (trace[k].outcome = "dir" /\ trace[k].ret = "ok")
              => /\ trace[k].lines = <<DirLine(EntryOf(trace[k]).rel)>>
                 /\ ~trace[k].created
    /\ ( /\ Cardinality({TargetOf(k) : k \in accepted})
               = Cardinality(accepted)
         /\ Created \subseteq accepted )
          => Cardinality(ArtifactNames) = Cardinality(accepted)

C5_Witness ==
    /\ pc = "exit_ok"
    /\ Cardinality({TargetOf(k) : k \in AcceptedFiles})
          < Cardinality(AcceptedFiles)
    /\ Cardinality(ArtifactNames) < Cardinality(AcceptedFiles)
    /\ \E k \in TraceIdx : trace[k].outcome = "dir" /\ trace[k].ret = "ok"

\* ------------------------------------------------------------------------
\* C6 (as stated): a file with a zero byte among its first 8192 bytes, or
\* with a denylisted extension (case-insensitive), is classified Binary
\* whatever its content, a zero-length file included.
\* ------------------------------------------------------------------------
\* the name ends in "." and a denylisted extension, in any letter case
HasDeniedExtension(name) ==
    \E d \in 2..(Len(name) - 1) :
        /\ name[d] = "."
        /\ ToLowercase(SubSeq(name, d + 1, Len(name))) \in binary_extensions

NulInPrefix(e) == e.nul >= 0 /\ e.nul < SniffLen /\ e.nul < e.len

\* history records of files that reached the classifier
Classified == {k \in TraceIdx : trace[k].outcome \in FileOutcomes \ {"too_long"}}

C6_DenylistAlwaysBinary ==
    \A k \in Classified :
        (NulInPrefix(EntryOf(trace[k]))
           \/ HasDeniedExtension(Last(EntryOf(trace[k]).rel)))
            => trace[k].outcome = "binary_or_large"

\* C6 (amended): a file with a zero byte among its first 8192 bytes, or a
\* non-empty file with a denylisted extension (case-insensitive), is
\* classified Binary whatever the configured max size; a zero-length file
\* that can be opened and read is not Binary, whatever its extension.
C6_BinaryUnlessEmpty ==
    \A k \in Classified :
        LET e == EntryOf(trace[k])
        IN  /\ (NulInPrefix(e)
                  \/ (e.len > 0 /\ HasDeniedExtension(Last(e.rel))))
                   => trace[k].outcome = "binary_or_large"
            /\ (e.len = 0
                  /\ trace[k].faults \cap {"sniff_open", "sniff_read"} = {})
                   => trace[k].outcome # "binary_or_large"

C6_Witness ==
    /\ \E k \in Classified :
          /\ EntryOf(trace[k]).rel = <<N_photo_PNG>>
          /\ trace[k].outcome = "binary_or_large"
    /\ \E k \in Classified :
          /\ EntryOf(trace[k]).rel = <<N_e_png>>
          /\ trace[k].outcome = "written"
    /\ \E k \in Classified :
          /\ EntryOf(trace[k]).rel = <<N_n_dat>>
          /\ trace[k].outcome = "binary_or_large"

\* ------------------------------------------------------------------------
\* C7: the tree document begins with the single root line "." and the root
\* contributes no other line; for the root holding a.txt and
\* node_modules/b.js the document is "." followed directly by the a.txt
\* line, and the only Artifact is a.txt.txt.
\* ------------------------------------------------------------------------
C7_RootLineOnly ==
    /\ file_tree # <<>> => file_tree[1] = RootLine
    /\ \A k \in TraceIdx :
          (Visited(trace[k]) /\ EntryOf(trace[k]).rel = <<>>)
              => trace[k].lines = <<>>
    /\ ( /\ fs = "scenario"
         /\ ~opt.outUnder
         /\ opt.max_files = DefaultMaxFiles
         /\ nfaults = 0
         /\ pc = "exit_ok"
         /\ idx > Len(Walk) )
          => /\ file_tree = <<RootLine, FileLine(<<N_a_txt>>)>>
             /\ ArtifactNames = {TargetName(<<N_a_txt>>)}

\* ------------------------------------------------------------------------
\* C8 (as stated): once the content of a Normal file was read, its tree
\* line is appended whether or not the Artifact write succeeded (create,
\* header line, blank line or content); only a source that could not be
\* opened leaves neither Artifact nor line.
\* ------------------------------------------------------------------------
C8_LineDespiteWriteFailure ==
    \A k \in TraceIdx :
        (trace[k].outcome \in {"create_error", "header_error", "blank_error",
                               "content_error"}
           /\ "tree" \notin trace[k].faults)
            => trace[k].lines = <<FileLine(EntryOf(trace[k]).rel)>>

\* C8 (amended): once the content of a Normal file was read, its tree line
\* is appended when the target was created and the header and blank lines
\* were written, whether or not writing the content succeeded; when the
\* source cannot be opened, or creating the target, writing the header line
\* or writing the blank line fails, no tree line is appended for the entry.
C8_LineOnlyPastBlankLine ==
    \A k \in TraceIdx :
        /\ (trace[k].outcome \in {"content_error", "written"}
              /\ "tree" \notin trace[k].faults)
               => trace[k].lines = <<FileLine(EntryOf(trace[k]).rel)>>
        /\ trace[k].outcome \in {"open_error", "create_error",
                                 "header_error", "blank_error"}
               => trace[k].lines = <<>>
        /\ trace[k].outcome \in {"open_error", "create_error"}
               => ~trace[k].created
        /\ trace[k].outcome \in {"header_error", "blank_error",
                                 "content_error"}
               => trace[k].created

C8_Witness ==
    \E k \in TraceIdx :
        /\ trace[k].outcome = "content_error"
        /\ trace[k].lines = <<FileLine(EntryOf(trace[k]).rel)>>
        /\ Len(output_files[TargetOf(k)]) = 2

\* ------------------------------------------------------------------------
\* C9 (as stated): once startup has succeeded no fault ends the run with an
\* error, a failed write to the tree document included.
\* ------------------------------------------------------------------------
C9_NoErrorExitAfterStartup ==
    pc = "exit_err" => trace = <<>>

\* C9 (amended): once startup has succeeded, no walk error, source
\* open/read failure or Artifact create/write failure ends the run: the
\* traversal goes on with the next item and the run ends with the summary
\* count and a success result.  Only a failed write of a line to the tree
\* document ends the run with an error, and then without the summary.
C9_OnlyTreeWriteFailureAborts ==
    /\ \A k \in TraceIdx :
          trace[k].ret = "err" <=> "tree" \in trace[k].faults
    /\ \A k \in TraceIdx :
          trace[k].ret = "err" => (k = Len(trace) /\ pc = "exit_err")
    /\ (pc = "exit_err" /\ trace # <<>>) => Last(trace).ret = "err"
    /\ (trace # <<>> /\ Last(trace).ret = "ok"
          /\ Last(trace).outcome # "notice")
           => pc \in {"visiting", "exit_ok"}
    /\ pc = "exit_ok" => total = <<file_count>>
    /\ pc # "exit_ok" => total = <<>>

C9_Witness ==
    /\ pc = "exit_ok"
    /\ \E k \in TraceIdx :
          /\ k < Len(trace)
          /\ trace[k].outcome = "open_error"
          /\ trace[k + 1].outcome \in {"written", "dir"}

\* ------------------------------------------------------------------------
\* C10: Done is terminal.  Once the terminal notice is in the tree document
\* the run is over: the notice is the last line, the loop body handled no
\* item after it, and no step of the loop can happen again, so tree
\* document, Artifacts and counter stay as they are.
\* ------------------------------------------------------------------------
C10_DoneIsTerminal ==
    NoticeCount >= 1 =>
        /\ Last(file_tree) = NoticeLine(opt.max_files)
        /\ Last(trace).outcome = "notice"
        /\ NoticeCount = 1
        /\ pc = "exit_ok"
        /\ total = <<file_count>>
        /\ ~ENABLED (LimitReached \/ WalkError \/ VisitEntry \/ WalkEnd)

C10_Witness ==
    /\ NoticeCount = 1
    /\ idx <= Len(Walk)
    /\ file_count > 0

\* ------------------------------------------------------------------------
\* Vocabulary of the file-handling properties
\* ------------------------------------------------------------------------
\* the textual length of the relative path of every entry of every walk
PathLens ==
    [n \in OptNames |->
        [f \in FileSystems |->
            [i \in 1..Len(Walks[n][f]) |-> Len(JoinPath(Walks[n][f][i].rel))]]]

PathTooLong(k) == PathLens[opt.name][fs][trace[k].i] > MaxPathLen

\* whether the last name of every entry of every walk ends in a denylisted
\* extension
Denied ==
    [n \in OptNames |->
        [f \in FileSystems |->
            [i \in 1..Len(Walks[n][f]) |->
                /\ Walks[n][f][i].rel # <<>>
                /\ HasDeniedExtension(Last(Walks[n][f][i].rel))]]]

DeniedExtension(k) == Denied[opt.name][fs][trace[k].i]

\* the operations on the source file and on the target file
SourceOps == {"sniff_open", "sniff_read", "metadata", "open", "read"}

TargetOps == {"create", "header", "blank", "content"}

\* history records of regular files handed to process_file
Handled == {k \in TraceIdx : trace[k].outcome \in FileOutcomes}

\* the sniff of the file could not open or read it
SniffFailed(t) == t.faults \cap {"sniff_open", "sniff_read"} # {}

\* the file of the record is binary or too large, as the disk and the
\* failures of the record have it
BinaryOrLarge(k) ==
    LET t == trace[k]
        e == EntryOf(t)
    IN  \/ SniffFailed(t)
        \/ NulInPrefix(e)
        \/ (e.len > 0 /\ DeniedExtension(k))
        \/ ("metadata" \notin t.faults /\ e.len > SizeThreshold)

\* ------------------------------------------------------------------------
\* C11: for every regular file handed to file handling the checks run in
\* the order path-too-long, binary-or-too-large, read failure; the first
\* that applies ends processing with its skipped line and no Artifact.  A
\* file whose relative path is longer than 200 gets the "path too long"
\* line before any open of the source is attempted, whatever its content,
\* extension or size.  (The line is appended unless that very write to the
\* tree document fails.)
\* ------------------------------------------------------------------------
C11_CheckOrder ==
    \A k \in Handled :
        LET t == trace[k]
            rel == EntryOf(t).rel
            Line(l) == "tree" \notin t.faults => t.lines = <<l>>
        IN  /\ PathTooLong(k) =>
                  /\ t.outcome = "too_long"
                  /\ t.ops \cap (SourceOps \cup TargetOps) = {}
            /\ (~PathTooLong(k) /\ BinaryOrLarge(k)) =>
                  /\ t.outcome = "binary_or_large"
                  /\ t.ops \cap ({"open", "read"} \cup TargetOps) = {}
            /\ (~PathTooLong(k) /\ ~BinaryOrLarge(k) /\ "read" \in t.faults) =>
                  /\ t.outcome = "read_error"
                  /\ t.ops \cap TargetOps = {}
            /\ t.outcome = "too_long" => Line(TooLongLine(rel))
            /\ t.outcome = "binary_or_large" => Line(BinaryLine(rel))
            /\ t.outcome = "read_error" => Line(ReadErrorLine(rel))
            /\ t.outcome \in {"too_long", "binary_or_large", "read_error"}
                  => ~t.created

C11_Witness ==
    /\ \E k \in Handled :
          /\ PathTooLong(k)
          /\ NulInPrefix(EntryOf(trace[k]))
          /\ DeniedExtension(k)
          /\ trace[k].lines = <<TooLongLine(EntryOf(trace[k]).rel)>>
          /\ trace[k].ops = {"tree"}
    /\ \E k \in Handled : trace[k].outcome = "binary_or_large"
    /\ \E k \in Handled :
          trace[k].outcome = "read_error" /\ trace[k].lines # <<>>

\* ------------------------------------------------------------------------
\* C12 (as stated): each Artifact file is written at most once during a
\* run and is either fully written (base-name line, blank line, complete
\* content) or not present at all, for any sequence of accepted files and
\* any write failure.
\* ------------------------------------------------------------------------
\* the history records that created (or truncated) the target called name
CreatorsOf(name) == {k \in Created : TargetOf(k) = name}

WrittenParts(outcome) ==
    CASE outcome = "header_error" -> 0
      [] outcome = "blank_error" -> 1
      [] outcome = "content_error" -> 2
      [] OTHER -> 3

C13_SniffFailureIsBinary ==
    \A k \in Handled :
        LET t == trace[k]
            e == EntryOf(t)
        IN  /\ SniffFailed(t) =>
                  /\ t.outcome = "binary_or_large"
                  /\ "tree" \notin t.faults => t.lines = <<BinaryLine(e.rel)>>
                  /\ ~t.created
                  /\ t.ops \subseteq {"sniff_open", "sniff_read", "tree"}
            /\ (e.len = 0 /\ ~SniffFailed(t))
                  => t.outcome # "binary_or_large"

C13_Witness ==
    /\ \E k \in Handled :
          /\ SniffFailed(trace[k])
          /\ ~DeniedExtension(k)
          /\ ~NulInPrefix(EntryOf(trace[k]))
          /\ trace[k].lines = <<BinaryLine(EntryOf(trace[k]).rel)>>
    /\ \E k \in Handled :
          /\ EntryOf(trace[k]).len = 0
          /\ DeniedExtension(k)
          /\ trace[k].outcome = "written"

\* ------------------------------------------------------------------------
\* C14: a file handed to file handling is TooLarge exactly when its
\* metadata can be read and its size exceeds the fixed threshold of
\* 1,000,000 bytes.  The configured max_size does not override the
\* threshold: with max_size above it, a file of a size between 1,000,001
\* and max_size is still skipped.  A metadata read failure is treated as
\* not too large.
\* ------------------------------------------------------------------------
\* history records of files that reached the size test: path not too long
\* and not Binary
SizeTested ==
    {k \in Handled :
        /\ ~PathTooLong(k)
        /\ ~SniffFailed(trace[k])
        /\ ~NulInPrefix(EntryOf(trace[k]))
        /\ ~(EntryOf(trace[k]).len > 0 /\ DeniedExtension(k))}

ListedDirs ==
    {k \in TraceIdx :
        /\ Visited(trace[k])
        /\ EntryOf(trace[k]).kind = "dir"
        /\ trace[k].outcome \notin {"output_dir", "ignored",
                                     "no_relative_path"}}

\* the entry lies beneath a directory of more than 20 components
BeneathDeep(e) == Len(e.rel) - 1 > MaxComponents

C15_DeepDirectoriesPerEntry ==
    /\ \A k \in ListedDirs :
          LET t == trace[k]
              rel == EntryOf(t).rel
          IN  /\ t.outcome = IF Len(rel) > MaxComponents THEN "deep" ELSE "dir"
              /\ "tree" \notin t.faults =>
                    t.lines = IF Len(rel) > MaxComponents THEN <<DeepLine>>
                              ELSE <<DirLine(rel)>>
              /\ ~t.created /\ ~t.counted
    /\ \A k \in TraceIdx :
          (trace[k].outcome = "deep" /\ k < Len(trace)
             /\ Visited(trace[k + 1]))
              => trace[k + 1].i = trace[k].i + 1
    /\ \A k \in TraceIdx :
          LET t == trace[k]
              e == EntryOf(t)
          IN  (Visited(t) /\ BeneathDeep(e) /\ e.kind = "file")
                  => /\ t.outcome \in FileOutcomes
                     /\ t.faults = {} =>
                           /\ t.outcome = "written"
                           /\ t.lines = <<FileLine(e.rel)>>
                           /\ t.created /\ t.counted
                           /\ TargetOf(k) \in ArtifactNames

C15_Witness ==
    /\ Cardinality({k \in ListedDirs : trace[k].lines = <<DeepLine>>}) = 2
    /\ \E k \in ListedDirs :
          /\ Len(EntryOf(trace[k]).rel) = MaxComponents
          /\ trace[k].lines = <<DirLine(EntryOf(trace[k]).rel)>>
    /\ \E k \in Handled :
          /\ BeneathDeep(EntryOf(trace[k]))
          /\ trace[k].outcome = "written"
          /\ trace[k].counted
          /\ TargetOf(k) \in ArtifactNames
    /\ file_count = 1

\* ------------------------------------------------------------------------
\* C16: the indent of a tree line is the indent glyph once per nesting
\* level (relative component count minus one, never below zero), capped at
\* 10 levels: for every depth d it is the glyph repeated min(d, 10) times,
\* so every depth above 10 renders with the level-10 indent, and no depth
\* makes the line fail.
\* ------------------------------------------------------------------------
\* history records that wrote an indented line: a directory or a file line
Indented ==
    {k \in TraceIdx :
        /\ trace[k].outcome \in (FileOutcomes \cup {"dir"})
        /\ trace[k].lines # <<>>}

GlyphCount(line) == Cardinality({i \in 1..Len(line) : line[i] = Glyph})

LevelOf(rel) == IF Len(rel) >= 1 THEN Len(rel) - 1 ELSE 0

\* get_indent on every depth up to the deepest level of the model
IndentOfEveryDepth ==
    \A d \in 0..DeepLevels :
        /\ Len(get_indent(d)) = (IF d < 10 THEN d ELSE 10)
        /\ \A i \in 1..Len(get_indent(d)) : get_indent(d)[i] = Glyph

C16_IndentCappedAtTen ==
    /\ IndentOfEveryDepth
    /\ \A k \in Indented :
          LET line == trace[k].lines[1]
              d == LevelOf(EntryOf(trace[k]).rel)
              n == IF d < 10 THEN d ELSE 10
          IN  /\ Len(trace[k].lines) = 1
              /\ GlyphCount(line) = n
              /\ \A i \in 1..n : line[i] = Glyph
              /\ line[n + 1] = Branch
    /\ \A k \in TraceIdx :
          (trace[k].outcome \in (FileOutcomes \cup {"dir"})
             /\ trace[k].lines = <<>>)
              => \/ "tree" \in trace[k].faults
                 \/ trace[k].outcome \in {"open_error", "create_error",
                                           "header_error", "blank_error"}

C16_Witness ==
    /\ \E k \in Indented :
          /\ LevelOf(EntryOf(trace[k]).rel) = DeepLevels
          /\ GlyphCount(trace[k].lines[1]) = MaxIndent
    /\ \E k \in Indented :
          /\ LevelOf(EntryOf(trace[k]).rel) = MaxIndent + 1
          /\ GlyphCount(trace[k].lines[1]) = MaxIndent
    /\ \E k \in Indented :
          /\ LevelOf(EntryOf(trace[k]).rel) = MaxIndent - 1
          /\ GlyphCount(trace[k].lines[1]) = MaxIndent - 1
    /\ \E k \in Indented :
          /\ EntryOf(trace[k]).rel = <<>>
          /\ GlyphCount(trace[k].lines[1]) = 0

\* ------------------------------------------------------------------------
\* C17: the tree document is append-only and holds at most one line per
\* visited entry: every step leaves the lines written before unchanged and
\* in place, the lines appear in the order the walk yielded their entries,
\* and each directory or regular file that is not ignored contributes at
\* most one line.  As a state predicate: the document is the root line
\* followed by what the items handled so far appended, in their order.
\* ------------------------------------------------------------------------
RECURSIVE AppendedUpTo(_)
AppendedUpTo(n) ==
    IF n = 0 THEN <<>> ELSE AppendedUpTo(n - 1) \o trace[n].lines

C17_AppendOnlyOneLinePerEntry ==
    /\ \/ file_tree = <<>> /\ trace = <<>>
       \/ file_tree = <<RootLine>> \o AppendedUpTo(Len(trace))
    /\ \A k \in TraceIdx : Visited(trace[k]) => Len(trace[k].lines) <= 1

\* ------------------------------------------------------------------------
\* C18: the Artifact target name is a function of the relative path only:
\* the relative path with every forward slash and backslash replaced by an
\* underscore, cut to its first 150 characters, with ".txt" appended, placed
\* directly inside the output directory.  It never contains a path
\* separator.  Two distinct accepted relative paths with the same
\* sanitized name (by separator collapse or by truncation) map to the same
\* target file, whose final content is that of the later one in walk order.
\* ------------------------------------------------------------------------
\* name is the target name the claim describes for the relative path text
IsTargetFor(name, text) ==
    LET n == IF Len(text) < 150 THEN Len(text) ELSE 150
    IN  /\ Len(name) = n + 4
        /\ \A i \in 1..n :
              name[i] = (IF text[i] = "/" \/ text[i] = "\\" THEN "_"
                         ELSE text[i])
        /\ <<name[n + 1], name[n + 2], name[n + 3], name[n + 4]>>
              = <<".", "t", "x", "t">>
        /\ \A i \in 1..Len(name) : name[i] # "/" /\ name[i] # "\\"

\* every entry of every walk has the target name the claim describes
TargetNamesAsDescribed ==
    \A n \in OptNames : \A f \in FileSystems :
        \A i \in 1..Len(Walks[n][f]) :
            IsTargetFor(Targets[n][f][i], JoinPath(Walks[n][f][i].rel))

\* what the file called name in the output directory holds
OnDisk(name) ==
    IF name = N_file_tree THEN file_tree ELSE AsLines(output_files[name])

C18_TargetNameFunction ==
    \E created \in {Created} :
    /\ TargetNamesAsDescribed
    /\ \A k \in created : TargetOf(k) \in ArtifactNames
    /\ \A k \in created : \A j \in created :
          ( /\ j < k
            /\ TargetOf(j) = TargetOf(k)
            /\ \A l \in created : l > k => TargetOf(l) # TargetOf(k)
            /\ trace[k].outcome = "written" )
              => OnDisk(TargetOf(k))
                    = << Last(EntryOf(trace[k]).rel), <<>>,
                         <<EntryOf(trace[k]).content>> >>

C18_Witness ==
    /\ \E j \in Created : \E k \in Created :
          /\ j < k
          /\ EntryOf(trace[j]).rel = <<N_trunc_1>>
          /\ EntryOf(trace[k]).rel = <<N_trunc_2>>
          /\ TargetOf(j) = TargetOf(k)
          /\ Len(TargetOf(k)) = MaxNameLen + 4
          /\ output_files[TargetOf(k)] = <<N_trunc_2, <<>>, "y2">>
    /\ \E k \in Created :
          /\ EntryOf(trace[k]).rel = <<N_w_q>>
          /\ <<"w", "_", "q", ".", "t", "x", "t">> \in ArtifactNames

\* ------------------------------------------------------------------------
\* C19 (as stated): in every reachable state 0 <= file_count <= max_files
\* and the number of Artifact files written so far is at most file_count
\* (and file_count never decreases and grows by at most one per yielded
\* entry).
\* ------------------------------------------------------------------------
C19_ArtifactsWithinCount ==
    /\ 0 <= file_count
    /\ file_count <= opt.max_files
    /\ Cardinality(ArtifactNames) <= file_count

\* C19 (amended): in every reachable state 0 <= file_count <= max_files;
\* file_count never decreases and grows by at most one per yielded entry;
\* and the number of Artifact files written so far is at most file_count
\* while the run has not failed.  When the write of a file's tree line
\* fails after its Artifact was written, the run ends with an error before
\* the increment, with at most one Artifact file more than file_count.
C19_CountBounds ==
    /\ [](/\ 0 <= file_count
          /\ file_count <= opt.max_files
          /\ pc # "exit_err" => Cardinality(ArtifactNames) <= file_count
          /\ pc = "exit_err" => Cardinality(ArtifactNames) <= file_count + 1)
    /\ [][/\ file_count' \in {file_count, file_count + 1}
          /\ file_count' = file_count + 1 => idx' = idx + 1]_vars

C19_Witness ==
    /\ pc = "exit_err"
    /\ file_count = 1
    /\ Cardinality(ArtifactNames) = 2
    /\ Last(trace).outcome = "written"
    /\ "tree" \in Last(trace).faults

\* ------------------------------------------------------------------------
\* C20: the budget check runs before the yielded item is inspected, so the
\* terminal notice is written if and only if the walk yields at least one
\* more item of any kind (ignored path, output-directory path, directory,
\* regular file or walk error) after file_count has reached max_files.  With
\* max_files = 0 the tree document is the root line followed by the notice,
\* with no directory lines and no Artifacts; a run whose walk ends exactly
\* when file_count reaches max_files writes no notice.  (The notice is in
\* the document unless its own write fails.)
\* ------------------------------------------------------------------------
\* the value of file_count when the loop body took the last item
CountAtLastItem ==
    file_count - (IF Last(trace).counted THEN 1 ELSE 0)

C20_NoticeIffItemAfterBudget ==
    /\ trace # <<>> =>
          /\ Last(trace).outcome = "notice"
                <=> CountAtLastItem >= opt.max_files
          /\ Last(trace).outcome = "notice" =>
                /\ Last(trace).ops = {"tree"}
                /\ ~Last(trace).counted /\ ~Last(trace).created
                /\ "tree" \notin Last(trace).faults
                      => Last(trace).lines = NoticeText(opt.max_files)
    /\ \A k \in 1..(Len(trace) - 1) : trace[k].outcome # "notice"
    /\ NoticeCount = 1
          <=> /\ trace # <<>>
              /\ Last(trace).outcome = "notice"
              /\ Last(trace).ret = "ok"
    /\ NoticeCount \in {0, 1}
    /\ (opt.max_files = 0 /\ pc = "exit_ok") =>
          /\ file_tree = <<RootLine>> \o NoticeText(0)
          /\ ArtifactNames = {}
          /\ file_count = 0
    /\ (pc = "exit_ok" /\ file_count = opt.max_files
          /\ Last(trace).outcome # "notice")
           => NoticeCount = 0

C20_Witness ==
    /\ opt.max_files > 0
    /\ file_count = opt.max_files
    /\ NoticeCount = 1
    /\ Last(trace).i = 0
    /\ Last(trace).faults = {"walk"}
    /\ pc = "exit_ok"

=============================================================================
